---- MODULE Spec2Model ----
(***************************************************************************)
(* Model of vd-card.js 1.1.0 (src/unnamed/part_000): the video card        *)
(* initializer with HLS and direct file support.                           *)
(*                                                                         *)
(* A URL is a sequence of tokens: each token is a chunk of the string that *)
(* the code never looks inside ("movie", "mp4", "m3u8", ...) or one of the *)
(* characters it looks for (".", "?", "#").  The browser runs one handler  *)
(* at a time, so initAll, a click on an overlay and a script load callback *)
(* are each one atomic action.  Every player keeps the ordered log of the  *)
(* side effects of its initOne call ("initLog") and counts what the        *)
(* handlers did to it afterwards.                                          *)
(*                                                                         *)
(* Outside the model: the title and description markup, data-startlevel,   *)
(* video.play() (its failures are swallowed), and exceptions thrown by the *)
(* decoder library inside attachHls (caught and logged there).  A script   *)
(* load that succeeds is taken to define window.Hls.                       *)
(***************************************************************************)
EXTENDS Integers, Sequences, FiniteSets, TLC

VARIABLES cfg,        \* the page: the data-* attributes of each .vd-card[data-src], in document order
          browser,    \* Hls.isSupported() and canPlayType(mpegurl) of this browser
          hlsDefined, \* typeof window.Hls !== 'undefined'
          players,    \* every player instance initOne has built, in creation order
          cur,        \* card -> the instance whose wrapper is in the card (0: none)
          requests,   \* the script loads in flight, in call order
          inits,      \* number of initAll calls so far
          clicks,     \* number of overlay clicks so far
          url,        \* classifier run: the URL under test
          verdict     \* classifier run: "none", "hls" or "direct"

vars == <<cfg, browser, hlsDefined, players, cur, requests, inits, clicks, url, verdict>>

\* ---------------------------------------------------------------- bounds
NCards == 2
MaxInits == 2
MaxClicks == 2
MaxUrlLen == 4

\* ---------------------------------------------------------------- URLs
MimeToken == "application/vnd.apple.mpegurl"

UrlTokens == {"a", ".", "m3u8", "M3U8", "mp4", "?", "#", MimeToken}

RECURSIVE SeqsUpTo(_, _)
SeqsUpTo(S, n) ==
  IF n = 0 THEN {<<>>}
  ELSE LET shorter == SeqsUpTo(S, n - 1)
       IN shorter \cup {Append(s, t) : s \in shorter, t \in S}

UrlSet == SeqsUpTo(UrlTokens, MaxUrlLen)

\* String.prototype.toLowerCase and the regex i flag, on one token
LowerCase(t) ==
  CASE t = "M3U8" -> "m3u8"
    [] t = "MP4"  -> "mp4"
    [] t = "WEBM" -> "webm"
    [] OTHER      -> t

\* /\.m3u8(\?|#|$)/i.test(src)
RegexM3u8(src) ==
  \E i \in 1..(Len(src) - 1) :
     /\ src[i] = "."
     /\ LowerCase(src[i + 1]) = "m3u8"
     /\ (i + 1 = Len(src) \/ src[i + 2] \in {"?", "#"})

\* a classifier that forgets the i flag
isHlsSourceCaseSensitive(src) ==
  IF src = <<>> THEN FALSE
  ELSE \/ \E i \in 1..(Len(src) - 1) :
             /\ src[i] = "."
             /\ src[i + 1] = "m3u8"
             /\ (i + 1 = Len(src) \/ src[i + 2] \in {"?", "#"})
       \/ \E i \in 1..Len(src) : src[i] = MimeToken

isHlsSource(src) ==
  IF src = <<>> THEN FALSE
  ELSE RegexM3u8(src) \/ \E i \in 1..Len(src) : src[i] = MimeToken

\* url.split('?')[0]
BeforeQuery(u) ==
  IF \E i \in 1..Len(u) : u[i] = "?"
  THEN SubSeq(u, 1, (CHOOSE i \in 1..Len(u) :
                        u[i] = "?" /\ \A j \in 1..(i - 1) : u[j] # "?") - 1)
  ELSE u

\* s.split('.').pop()
AfterLastDot(s) ==
  IF \E i \in 1..Len(s) : s[i] = "."
  THEN SubSeq(s, (CHOOSE i \in 1..Len(s) :
                     s[i] = "." /\ \A j \in (i + 1)..Len(s) : s[j] # ".") + 1, Len(s))
  ELSE s

detectMimeTypeFromUrl(u) ==
  IF u = <<>> THEN ""
  ELSE LET raw == AfterLastDot(BeforeQuery(u))
           ext == [i \in 1..Len(raw) |-> LowerCase(raw[i])]
       IN CASE ext = <<"mp4">>  -> "video/mp4"
            [] ext = <<"webm">> -> "video/webm"
            [] ext = <<"ogg">>  -> "video/ogg"
            [] ext = <<"mov">>  -> "video/quicktime"
            [] OTHER            -> ""

\* ---------------------------------------------------------------- placeholders
SrcSet == { <<"movie", ".", "mp4">>,
            <<"clip", ".", "WEBM", "?", "v">>,
            <<"movie", ".", "mp4", "#", "t">>,
            <<"stream", ".", "m3u8">> }

PosterSet == {"", "poster.jpg"}

\* card.getAttribute('data-lazy'): "null" stands for the absent attribute
LazyAttrSet == {"null", "1", "true", "0"}

Placeholder == [src : SrcSet, poster : PosterSet, lazyAttr : LazyAttrSet]

\* a lazy flag that only honours data-lazy="1"
IsLazyOnlyOne(lazyAttr, lazyLoad) == lazyAttr = "1" \/ lazyLoad

\* const lazy = (lazyAttr === '1' || lazyAttr === 'true') || !!opts.lazyLoad
IsLazy(lazyAttr, lazyLoad) == (lazyAttr = "1" \/ lazyAttr = "true") \/ lazyLoad

\* ---------------------------------------------------------------- players
\* The wrapper, the video element and the overlay as initOne creates them
\* (the overlay is a child of the wrapper, the wrapper is not yet in the card).
NewPlayer(card, src, poster, lazy) ==
  [card     |-> card,
   src      |-> src,
   poster   |-> poster,
   lazy     |-> lazy,
   overlay  |-> TRUE,     \* the overlay is a child of the wrapper
   inCard   |-> FALSE,    \* the wrapper is a child of the card
   sources  |-> <<>>,     \* the type of each <source> child of the video
   videoSrc |-> <<>>,     \* video.src (<<>>: never assigned)
   hlsBound |-> 0,        \* Hls instances attached to the video
   attempts |-> 0,        \* runs of the attachment logic on this video
   attaches |-> 0,        \* source attachments performed on this video
   warns    |-> 0,        \* console.warn calls made on behalf of this player
   loadErrs |-> 0,        \* load callbacks of this player that got an error
   initLog  |-> <<"build">>]  \* the side effects of initOne, in order

\* initOne's side effects are logged until it has inserted the wrapper
Log(v, events) ==
  IF v.initLog[Len(v.initLog)] = "insert" THEN v ELSE [v EXCEPT !.initLog = @ \o events]

attachHls(v, hlsDef, br) ==
  IF hlsDef /\ br.hlsSupported
  THEN Log([v EXCEPT !.hlsBound = @ + 1, !.attempts = @ + 1, !.attaches = @ + 1],
           <<"attachHls", "hlsBind">>)
  ELSE IF br.nativeHls
  THEN Log([v EXCEPT !.videoSrc = v.src, !.attempts = @ + 1, !.attaches = @ + 1],
           <<"attachHls", "nativeSrc">>)
  ELSE Log([v EXCEPT !.attempts = @ + 1, !.warns = @ + 1], <<"attachHls", "warnNoHls">>)

\* an attacher that only sets video.src
attachDirectFileSrcOnly(v) ==
  Log([v EXCEPT !.videoSrc = v.src, !.attempts = @ + 1, !.attaches = @ + 1],
      <<"attachDirectFile">>)

attachDirectFile(v) ==
  Log([v EXCEPT !.sources  = <<detectMimeTypeFromUrl(v.src)>>,
                !.videoSrc = v.src, !.attempts = @ + 1, !.attaches = @ + 1],
      <<"attachDirectFile">>)

\* an overlay that is toggled instead of removed
toggleOverlay(v) == Log([v EXCEPT !.overlay = ~@], <<"overlayRemove">>)

\* overlay.remove()
removeOverlay(v) == Log([v EXCEPT !.overlay = FALSE], <<"overlayRemove">>)

\* a loader that reuses a load already in flight
loadScriptDedup(reqs, p, path) ==
  IF reqs # <<>>
  THEN reqs
  ELSE Append(reqs, [player |-> p, path |-> path])

\* one <script> element per call; its onload or onerror runs the callback
loadScript(reqs, p, path) == Append(reqs, [player |-> p, path |-> path])

\* ---------------------------------------------------------------- initOne
\* The eager branch of initOne: attach now, or ask for the decoder.
EagerAttach(v, hlsDef, br) ==
  IF isHlsSource(v.src)
  THEN IF ~hlsDef THEN Log(v, <<"loadScript">>) ELSE attachHls(v, hlsDef, br)
  ELSE attachDirectFile(v)

\* an initOne that leaves an initialized card alone
initOneOnce(st, c, pl, lazyLoad, hlsDef, br) ==
  IF pl.src = <<>> \/ st.cur[c] # 0 THEN st
  ELSE LET lazy == IsLazy(pl.lazyAttr, lazyLoad)
           id   == Len(st.players) + 1
           v0   == NewPlayer(c, pl.src, pl.poster, lazy)
           v1   == IF lazy THEN v0 ELSE EagerAttach(v0, hlsDef, br)
           v2   == IF ~lazy /\ pl.poster = "" THEN removeOverlay(v1) ELSE v1
           v3   == [Log(v2, <<"insert">>) EXCEPT !.inCard = TRUE]
       IN [players  |-> Append(st.players, v3),
           cur      |-> [st.cur EXCEPT ![c] = id],
           requests |-> IF ~lazy /\ isHlsSource(pl.src) /\ ~hlsDef
                        THEN loadScript(st.requests, id, "eager")
                        ELSE st.requests]

\* initOne(card, opts) on card c carrying placeholder pl; st is the page
\* (players, cur, requests) before the call, the result the page after it.
initOne(st, c, pl, lazyLoad, hlsDef, br) ==
  IF pl.src = <<>> THEN st
  ELSE LET lazy == IsLazy(pl.lazyAttr, lazyLoad)
           id   == Len(st.players) + 1
           v0   == NewPlayer(c, pl.src, pl.poster, lazy)
           v1   == IF lazy THEN v0 ELSE EagerAttach(v0, hlsDef, br)
           v2   == IF ~lazy /\ pl.poster = "" THEN removeOverlay(v1) ELSE v1
           \* card.innerHTML = '' detaches the previous wrapper of this card
           old  == st.cur[c]
           ps   == IF old = 0 THEN st.players
                   ELSE [st.players EXCEPT ![old].inCard = FALSE]
           v3   == [Log(v2, <<"insert">>) EXCEPT !.inCard = TRUE]
       IN [players  |-> Append(ps, v3),
           cur      |-> [st.cur EXCEPT ![c] = id],
           requests |-> IF ~lazy /\ isHlsSource(pl.src) /\ ~hlsDef
                        THEN loadScript(st.requests, id, "eager")
                        ELSE st.requests]

\* cards.forEach(card => initOne(card, opts)), in document order from card c
RECURSIVE initFrom(_, _, _, _, _, _)
initFrom(st, c, placeholders, lazyLoad, hlsDef, br) ==
  IF c > Len(placeholders) THEN st
  ELSE initFrom(initOne(st, c, placeholders[c], lazyLoad, hlsDef, br),
                c + 1, placeholders, lazyLoad, hlsDef, br)

\* ---------------------------------------------------------------- onPlayClick
\* a click handler that removes the overlay before the decoder has arrived
ClickLoadRemovesOverlay(v) == removeOverlay(Log(v, <<"loadScript">>))

\* onPlayClick when the decoder is missing: only the load request is made
ClickLoad(v) == Log(v, <<"loadScript">>)

\* onPlayClick of player v (the overlay's click listener)
onPlayClick(v, hlsDef, br) ==
  IF isHlsSource(v.src)
  THEN IF ~hlsDef THEN ClickLoad(v)
       ELSE removeOverlay(attachHls(v, hlsDef, br))
  ELSE removeOverlay(attachDirectFile(v))

\* ---------------------------------------------------------------- load callbacks
\* the fallback both callbacks run when the script failed to load
NativeFallback(v, br) ==
  IF br.nativeHls
  THEN Log([v EXCEPT !.videoSrc = v.src, !.attempts = @ + 1, !.attaches = @ + 1],
           <<"nativeSrc">>)
  ELSE [v EXCEPT !.attempts = @ + 1]

\* the callback initOne passes to loadScript on the eager path
EagerCallback(v, err, br) ==
  IF err
  THEN NativeFallback([v EXCEPT !.loadErrs = @ + 1], br)
  ELSE attachHls(v, TRUE, br)

\* the callback onPlayClick passes to loadScript
ClickCallback(v, err, br) ==
  removeOverlay(
    IF err
    THEN NativeFallback([v EXCEPT !.loadErrs = @ + 1, !.warns = @ + 1], br)
    ELSE attachHls(v, TRUE, br))

\* ---------------------------------------------------------------- the page
Cards == DOMAIN cfg

\* a page holding one placeholder
SinglePages == {<<pl>> : pl \in Placeholder}

\* a page holding NCards placeholders
Pages == [1..NCards -> Placeholder]

Fresh ==
  /\ browser \in [hlsSupported : BOOLEAN, nativeHls : BOOLEAN]
  /\ hlsDefined \in BOOLEAN
  /\ players = <<>>
  /\ cur = [c \in Cards |-> 0]
  /\ requests = <<>>
  /\ inits = 0
  /\ clicks = 0
  /\ url = <<>>
  /\ verdict = "none"

Init == cfg \in SinglePages /\ Fresh

\* initAll(options) with options.lazyLoad = lazyLoad
initAll(lazyLoad) ==
  LET st == initFrom([players |-> players, cur |-> cur, requests |-> requests],
                     1, cfg, lazyLoad, hlsDefined, browser)
  IN /\ players' = st.players
     /\ cur' = st.cur
     /\ requests' = st.requests
     /\ inits' = inits + 1
     /\ UNCHANGED <<cfg, browser, hlsDefined, clicks, url, verdict>>

\* VdCard.init(options)
InitAll ==
  /\ inits < MaxInits
  /\ \E lazyLoad \in BOOLEAN : initAll(lazyLoad)

\* the DOMContentLoaded listener: initAll() with the defaults, once per page
AutoInit ==
  /\ inits = 0
  /\ initAll(FALSE)

\* the user clicks the overlay of the player shown in a card
Click ==
  \E c \in Cards :
     /\ clicks < MaxClicks
     /\ cur[c] # 0
     /\ players[cur[c]].inCard
     /\ players[cur[c]].overlay
     /\ LET p == cur[c]
            v == onPlayClick(players[p], hlsDefined, browser)
        IN /\ players' = [players EXCEPT ![p] = v]
           /\ requests' = IF isHlsSource(players[p].src) /\ ~hlsDefined
                          THEN loadScript(requests, p, "click")
                          ELSE requests
     /\ clicks' = clicks + 1
     /\ UNCHANGED <<cfg, browser, hlsDefined, cur, inits, url, verdict>>

\* a <script> element fires onload (err = FALSE) or onerror (err = TRUE):
\* the load is over and its callback runs, once
LoadCallback ==
  \E r \in 1..Len(requests), err \in BOOLEAN :
     /\ requests' = [i \in 1..(Len(requests) - 1) |->
                        IF i < r THEN requests[i] ELSE requests[i + 1]]
     /\ hlsDefined' = (hlsDefined \/ ~err)
     /\ LET p == requests[r].player
        IN players' = [players EXCEPT ![p] =
                         IF requests[r].path = "eager"
                         THEN EagerCallback(@, err, browser)
                         ELSE ClickCallback(@, err, browser)]
     /\ UNCHANGED <<cfg, browser, cur, inits, clicks, url, verdict>>

\* one placeholder: any number of init calls and clicks, loads in any order
Next == InitAll \/ Click \/ LoadCallback

Spec == Init /\ [][Next]_vars

\* ---------------------------------------------------------------- page load
\* NCards placeholders: the automatic init, then the loads in any order
InitPage == cfg \in Pages /\ Fresh

NextPage == AutoInit \/ LoadCallback

SpecPage == InitPage /\ [][NextPage]_vars

\* ---------------------------------------------------------------- classifier runs
InitUrl ==
  /\ url \in UrlSet
  /\ verdict = "none"
  /\ cfg = <<>>
  /\ browser = [hlsSupported |-> FALSE, nativeHls |-> FALSE]
  /\ hlsDefined = FALSE
  /\ players = <<>>
  /\ cur = <<>>
  /\ requests = <<>>
  /\ inits = 0
  /\ clicks = 0

\* isHlsSource(src) applied to the URL under test
Classify ==
  /\ verdict = "none"
  /\ verdict' = IF isHlsSource(url) THEN "hls" ELSE "direct"
  /\ UNCHANGED <<cfg, browser, hlsDefined, players, cur, requests, inits, clicks, url>>

NextUrl == Classify

SpecUrl == InitUrl /\ [][NextUrl]_vars

\* ---------------------------------------------------------------- properties
PlayerIds == 1..Len(players)

\* the video element has a source: a <source> child, video.src or a bound decoder
Attached(v) == v.sources # <<>> \/ v.videoSrc # <<>> \/ v.hlsBound > 0

\* the script loads in flight whose callback belongs to player p
Pending(p) == {r \in 1..Len(requests) : requests[r].player = p}

\* the steps of initOne that are source-attachment logic
AttachLogic == {"attachDirectFile", "attachHls", "loadScript"}

Before(log, a, i) == \E j \in 1..(i - 1) : log[j] = a

\* the URL ends in .m3u8 (any letter case), optionally followed by ?... or #...
EndsInM3u8(u) ==
  \E k \in 1..(Len(u) - 1) :
     /\ u[k] = "."
     /\ u[k + 1] \in {"m3u8", "M3U8"}
     /\ (k + 1 = Len(u) \/ u[k + 2] = "?" \/ u[k + 2] = "#")

ContainsMimeToken(u) == \E k \in 1..Len(u) : u[k] = MimeToken

\* the MIME type of an extension, as the documentation lists it
MimeOfExtension(ext) ==
  CASE ext \in {<<"mp4">>, <<"MP4">>}   -> "video/mp4"
    [] ext \in {<<"webm">>, <<"WEBM">>} -> "video/webm"
    [] ext = <<"ogg">>                  -> "video/ogg"
    [] ext = <<"mov">>                  -> "video/quicktime"
    [] OTHER                            -> ""

\* C1: at most one source attachment is ever performed on the video element of
\* a player instance.
C1_AtMostOneAttachment == \A p \in PlayerIds : players[p].attaches <= 1

\* C2: a lazy player has no source and shows its overlay until it is clicked;
\* once the overlay is gone exactly one attachment attempt has been made, and
\* never more than one, however many clicks came before the overlay went.
C2_LazyClickAttachesOnce ==
  \A p \in PlayerIds :
     players[p].lazy =>
        /\ players[p].attempts <= 1
        /\ players[p].overlay => (players[p].attempts = 0 /\ ~Attached(players[p]))
        /\ ~players[p].overlay => players[p].attempts = 1

\* C3 as stated: in initOne no attachment logic runs before the card has been
\* cleared and the head and the wrapper inserted.
C3_DomBeforeAttach ==
  \A p \in PlayerIds :
     \A i \in 1..Len(players[p].initLog) :
        players[p].initLog[i] \in AttachLogic => Before(players[p].initLog, "insert", i)

\* C3 amended: the wrapper, video element and overlay are built before any
\* attachment logic; initOne always ends by inserting the wrapper; a lazy
\* placeholder runs no attachment logic in initOne; an eager one runs it
\* before the insertion.
C3_BuildBeforeAttach ==
  \A p \in PlayerIds :
     LET log == players[p].initLog
         pl  == cfg[players[p].card]
     IN /\ log[1] = "build" /\ log[Len(log)] = "insert"
        /\ \A i \in 1..Len(log) : log[i] \in AttachLogic => Before(log, "build", i)
        /\ pl.lazyAttr \in {"1", "true"} => \A i \in 1..Len(log) : log[i] \notin AttachLogic
        /\ ~players[p].lazy =>
              \E i \in 1..Len(log) : log[i] \in AttachLogic /\ ~Before(log, "insert", i)

C3_Witness ==
  \E p, q \in PlayerIds :
     /\ players[p].lazy /\ players[p].attempts = 1
     /\ ~players[q].lazy /\ players[q].initLog = <<"build", "loadScript", "overlayRemove", "insert">>

\* C4 as stated: the overlay is never removed while an attachment of the
\* player is outstanding: once it is gone an attachment has been made or
\* abandoned and no decoder load of the player is in flight.
C4_NoRemovalWhileOutstanding ==
  \A p \in PlayerIds :
     ~players[p].overlay => (players[p].attempts >= 1 /\ Pending(p) = {})

\* C4 amended: a handler that removes the overlay of an existing player has
\* run an attachment attempt on it in the same step; initOne removes the
\* overlay exactly when the placeholder is eager and has no poster.
C4_RemovalFollowsOwnAttachment ==
  /\ [](\A p \in PlayerIds :
          (\E i \in 1..Len(players[p].initLog) : players[p].initLog[i] = "overlayRemove")
             <=> (~players[p].lazy /\ cfg[players[p].card].poster = ""))
  /\ [][\A p \in PlayerIds :
          (players[p].overlay /\ ~players'[p].overlay)
             => players'[p].attempts = players[p].attempts + 1]_vars

C4_Witness ==
  /\ \E p \in PlayerIds :
        ~players[p].overlay /\ players[p].attempts = 0 /\ Pending(p) # {}
  /\ \E q \in PlayerIds :
        players[q].lazy /\ ~players[q].overlay /\ players[q].attempts = 1

\* C5 as stated: a player in the card is Dormant (overlay, no source) or
\* Playing (no overlay, source): the overlay shows iff no source is attached.
C5_DormantOrPlaying ==
  \A p \in PlayerIds :
     players[p].inCard => (players[p].overlay <=> ~Attached(players[p]))

\* C5 amended: a lazy player is Dormant until its first attachment attempt;
\* an overlay once removed is never shown again and a source once attached
\* is never detached.
C5_NoWayBackToDormant ==
  /\ [](\A p \in PlayerIds :
          (cfg[players[p].card].lazyAttr \in {"1", "true"} /\ players[p].attempts = 0)
             => (players[p].overlay /\ ~Attached(players[p])))
  /\ [][\A p \in PlayerIds :
          /\ ~players[p].overlay => ~players'[p].overlay
          /\ Attached(players[p]) => Attached(players'[p])]_vars

C5_Witness ==
  /\ \E p \in PlayerIds :
        players[p].inCard /\ players[p].overlay /\ Attached(players[p])
  /\ \E q \in PlayerIds :
        ~players[q].overlay /\ ~Attached(players[q]) /\ players[q].attempts = 2

\* C6: after a failed decoder load the video src is the URL when the browser
\* plays HLS natively; otherwise no source is set and every failure has
\* logged a warning.
C6_LoadFailureFallback ==
  \A p \in PlayerIds :
     players[p].loadErrs > 0 =>
        IF browser.nativeHls
        THEN players[p].videoSrc = players[p].src
        ELSE players[p].videoSrc = <<>> /\ players[p].warns >= players[p].loadErrs

\* C7 as stated: the classifier answers adaptive-stream exactly for the URLs
\* that end in .m3u8, optionally followed by ?... or #...
C7_ClassifierByExtension ==
  verdict # "none" => (verdict = "hls" <=> EndsInM3u8(url))

\* C7 amended: the classifier answers adaptive-stream exactly for the URLs
\* that end in .m3u8 (optionally followed by ?... or #...) or contain the
\* manifest MIME type token, and direct-file for all others.
C7_ClassifierByExtensionOrMime ==
  verdict # "none" =>
     (verdict = "hls" <=> (EndsInM3u8(url) \/ ContainsMimeToken(url)))

C7_Witness ==
  /\ verdict = "hls"
  /\ url = <<"a", ".", "mp4", MimeToken>>

C9_ReinitBuildsFreshPlayer ==
  [][inits' = inits + 1 =>
       \A c \in Cards :
          LET old == cur[c]
              new == cur'[c]
              v   == players'[new]
              hls == EndsInM3u8(v.src) \/ ContainsMimeToken(v.src)
              mine == {r \in 1..Len(requests') : requests'[r].player = new}
          IN /\ new > Len(players) /\ new <= Len(players')
             /\ v.card = c /\ v.inCard /\ v.src = cfg[c].src
             /\ old # 0 => players'[old] = [players[old] EXCEPT !.inCard = FALSE]
             /\ cfg[c].lazyAttr \in {"1", "true"} => v.lazy
             /\ v.overlay <=> (v.lazy \/ cfg[c].poster # "")
             /\ v.warns <= v.attempts /\ v.loadErrs = 0
             /\ v.lazy => (v.attempts = 0 /\ ~Attached(v) /\ mine = {})
             /\ (~v.lazy /\ ~hls) => (v.attempts = 1 /\ Len(v.sources) = 1 /\ mine = {})
             /\ (~v.lazy /\ hls /\ hlsDefined) => (v.attempts = 1 /\ mine = {})
             /\ (~v.lazy /\ hls /\ ~hlsDefined) =>
                   (v.attempts = 0 /\ ~Attached(v) /\ Cardinality(mine) = 1)]_vars

C9_Witness ==
  /\ inits = 2
  /\ \E old, new \in PlayerIds :
        /\ players[old].card = players[new].card
        /\ ~players[old].inCard /\ ~players[old].overlay /\ players[old].attaches = 2
        /\ players[new].inCard /\ players[new].overlay /\ players[new].attempts = 0

\* C10: every decoder load asked for by initOne is one request of its own
\* whose callback runs once, on the player that asked: a player that asked
\* has either its request in flight or has had its one attachment attempt;
\* the automatic init of a page without decoder issues one request per eager
\* adaptive-stream placeholder; and a step that changes a player completes a
\* request of that player.
C10_OneLoadPerPlayer ==
  /\ [](\A p \in PlayerIds :
          IF \E i \in 1..Len(players[p].initLog) : players[p].initLog[i] = "loadScript"
          THEN Cardinality(Pending(p)) + players[p].attempts = 1
          ELSE Pending(p) = {})
  /\ [][(inits' = inits + 1 /\ ~hlsDefined) =>
          Len(requests') = Len(requests)
             + Cardinality({c \in Cards : /\ EndsInM3u8(cfg[c].src)
                                          /\ cfg[c].lazyAttr \notin {"1", "true"}})]_vars
  /\ [][\A p \in PlayerIds :
          players'[p] # players[p] =>
             \E r \in 1..Len(requests) :
                /\ requests[r].player = p
                /\ Cardinality({x \in 1..Len(requests') : requests'[x].player = p})
                      = Cardinality(Pending(p)) - 1]_vars

C10_Witness ==
  /\ Len(players) = NCards
  /\ \A p \in PlayerIds : players[p].initLog[2] = "loadScript"
  /\ Pending(1) # {}
  /\ \A p \in PlayerIds : p > 1 => (Pending(p) = {} /\ players[p].attempts = 1)

====
